---- MODULE Spec2Model ----
(***************************************************************************)
(* Grimey's Doom Teller (src/grimey_doom_teller.py): a Streamlit script     *)
(* that takes a form, asks the OpenAI chat endpoint for a reading and the   *)
(* ElevenLabs endpoint for its audio, and keeps both in st.session_state.   *)
(*                                                                         *)
(* Strings the code only passes along are TLA+ strings.  Strings the code   *)
(* inspects character by character (the mode label: startswith; the         *)
(* completion: strip) are sequences of one-character strings.               *)
(* Temperatures are in hundredths (0.8 is 80).                              *)
(***************************************************************************)
EXTENDS Integers, Sequences, FiniteSets, TLC

\* Longest completion text the text service returns in the model.
MaxLen == 2

VARIABLES
    config,         \* the secrets the current run read, lines 16-18
    form,           \* the values of the form's widgets, lines 181-185
    session_state,  \* st.session_state: key -> value
    pc,             \* where the handling of the submission stands
    calls,          \* the HTTP exchanges of the current script run, in order
    message,        \* what st.error / status.update last showed
    last            \* history: the step that led to this state

vars == <<config, form, session_state, pc, calls, message, last>>

-----------------------------------------------------------------------------
(* Python values *)

\* None, among values that are sequences (texts, bytes)
None == <<"None">>

\* b"": an empty response body
EmptyBytes == <<>>

\* bool(x) of a text, bytes or None value
Truthy(x) == x # None /\ x # <<>>

\* Mutant of OrNotProvided: the value is used as it is.
AsGiven(x) == x

\* x or "not provided", of a form field
OrNotProvided(x) == IF x = "" THEN "not provided" ELSE x

Whitespace == {" ", "\n", "\t"}

RECURSIVE LStrip(_)
LStrip(s) ==
    IF s # <<>> /\ Head(s) \in Whitespace THEN LStrip(Tail(s)) ELSE s

RECURSIVE RStrip(_)
RStrip(s) ==
    IF s # <<>> /\ s[Len(s)] \in Whitespace
    THEN RStrip(SubSeq(s, 1, Len(s) - 1))
    ELSE s

\* str.strip()
Strip(s) == RStrip(LStrip(s))

\* str.startswith(p)
StartsWith(s, p) == Len(s) >= Len(p) /\ SubSeq(s, 1, Len(p)) = p

-----------------------------------------------------------------------------
(* The prompt catalog, lines 24-94 *)

\* Each prompt is named by its opening sentence; the code never looks inside.
NOCTURNE_PROMPT ==
    "\nYou are an old, watchful intelligence that speaks like the hour before midnight.\n"

KID_PROMPT ==
    "\nYou are a campfire storyteller AI for kids (around age 10): spooky, playful, and kind.\n"

TEEN_PROMPT ==
    "\nYou are a midnight narrator for teens (around 12+). Eerie, direct, and cinematic.\n"

Lit(s) == [kind |-> "lit", s |-> s]
Field(f) == [kind |-> "field", s |-> f]

\* The format string, as its literal text and its replacement fields.
USER_MSG == <<
    Lit("Return ONE short reading in the specified style.\n\n"),
    Lit("Name: "), Field("name"), Lit("\n"),
    Lit("Occupation: "), Field("occupation"), Lit("\n"),
    Lit("Detail: "), Field("detail"), Lit("\n"),
    Lit("Birthday: "), Field("birthday"), Lit("\n") >>

\* str.format(**kw): literal text is copied, each field is replaced by its
\* argument, and the argument's own text is not scanned again.
RECURSIVE Format(_, _)
Format(tmpl, kw) ==
    IF tmpl = <<>> THEN ""
    ELSE (IF Head(tmpl).kind = "lit" THEN Head(tmpl).s ELSE kw[Head(tmpl).s])
         \o Format(Tail(tmpl), kw)

-----------------------------------------------------------------------------
(* Mode strings *)

GROWN_UP == <<"G","r","o","w","n","-","U","p">>
KID_FRIENDLY == <<"K","i","d","-","F","r","i","e","n","d","l","y">>
KID == <<"K","i","d">>
TEEN == <<"T","e","e","n">>
TEEN_LABEL == <<"T","e","e","n"," ","(","1","2","+",")">>

\* The options of the radio, line 185.
RadioOptions == {GROWN_UP, KID_FRIENDLY, TEEN_LABEL}

\* The labels and keys the code names, and strings it does not.
ModeStrings == RadioOptions \cup {TEEN, KID, <<"B","o","o">>, <<>>}

\* Mutant of ModeKey: the kid label is cut to its prefix, which is no key
\* of generate_text.
ModeKeyPrefix(mode) ==
    IF StartsWith(mode, GROWN_UP) THEN GROWN_UP
    ELSE IF StartsWith(mode, KID) THEN KID
    ELSE TEEN

\* mode_key, lines 207-208
ModeKey(mode) ==
    IF StartsWith(mode, GROWN_UP) THEN GROWN_UP
    ELSE IF StartsWith(mode, KID) THEN KID_FRIENDLY
    ELSE TEEN

\* The if/elif/else of generate_text, lines 101-112.
ModeConfig(mode) ==
    IF mode = GROWN_UP
    THEN [system_prompt |-> NOCTURNE_PROMPT, temperature |-> 80, max_tokens |-> 450]
    ELSE IF mode = KID_FRIENDLY
    THEN [system_prompt |-> KID_PROMPT, temperature |-> 90, max_tokens |-> 380]
    ELSE [system_prompt |-> TEEN_PROMPT, temperature |-> 85, max_tokens |-> 420]

-----------------------------------------------------------------------------
(* The two requests *)

OPENAI_ENDPOINT == "https://api.openai.com/v1/chat/completions"
ELEVEN_ENDPOINT == "https://api.elevenlabs.io/v1/text-to-speech/"
OPENAI_MODEL == "gpt-4o-mini"

\* The payload generate_text builds, lines 114-127.
TextPayload(name, occupation, detail, birthday, model, mode) ==
    [model |-> model,
     messages |-> <<
        [role |-> "system", content |-> ModeConfig(mode).system_prompt],
        [role |-> "user",
         content |-> Format(USER_MSG,
            [name |-> OrNotProvided(name),
             occupation |-> OrNotProvided(occupation),
             detail |-> OrNotProvided(detail),
             birthday |-> OrNotProvided(birthday)])] >>,
     temperature |-> ModeConfig(mode).temperature,
     max_tokens |-> ModeConfig(mode).max_tokens]

\* requests.post of generate_text, lines 98-99 and 128.
TextRequest(name, occupation, detail, birthday, model, mode, api_key) ==
    [service |-> "text",
     url |-> OPENAI_ENDPOINT,
     auth |-> "Bearer " \o api_key,
     payload |-> TextPayload(name, occupation, detail, birthday, model, mode),
     timeout |-> 60]

\* requests.post of elevenlabs_tts, lines 135-149.
VoiceRequest(text, voice_id, api_key) ==
    [service |-> "voice",
     url |-> ELEVEN_ENDPOINT \o voice_id,
     auth |-> api_key,
     payload |-> [text |-> text,
                  model_id |-> "eleven_multilingual_v2",
                  voice_settings |-> [stability |-> 50, similarity_boost |-> 75]],
     timeout |-> 120]

-----------------------------------------------------------------------------
(* What the services answer, and what the two functions make of it *)

Alphabet == {"a", "b", " "}

\* choices[0].message.content of a completion
Contents == UNION {[1..n -> Alphabet] : n \in 0..MaxLen}

\* The audio the voice service makes of a text.
Speech(text) == <<"mp3", text>>

Timeout == [kind |-> "timeout", status |-> 0, body |-> <<>>]
ConnectionError == [kind |-> "connection", status |-> 0, body |-> <<>>]
Response(status, body) == [kind |-> "response", status |-> status, body |-> body]

\* What requests.post of generate_text can end with: a completion, a 2xx
\* body that is no JSON or holds no choices, a final 3xx, a 4xx, a 5xx, no
\* answer within the timeout, no connection.
TextResponses ==
    {Response(200, <<"completion", c>>) : c \in Contents}
    \cup {Response(200, <<"html">>), Response(200, <<"json">>)}
    \cup {Response(st, <<>>) : st \in {304, 401, 500}}
    \cup {Timeout, ConnectionError}

\* What requests.post of elevenlabs_tts can end with.
VoiceResponses(text) ==
    {Response(200, Speech(text))}
    \cup {Response(st, <<>>) : st \in {304, 401, 500}}
    \cup {Timeout, ConnectionError}

\* Every answer of the voice service, to any text.
AnyVoiceResponse == UNION {VoiceResponses(Strip(c)) : c \in Contents}

\* Response.raise_for_status(): raises for 4xx and 5xx only.
RaisesForStatus(status) == 400 <= status /\ status < 600

Return(v) == [raised |-> FALSE, exc |-> "", value |-> v]
Raise(e) == [raised |-> TRUE, exc |-> e, value |-> None]

\* What requests.post itself raises, or "".
PostRaises(resp) ==
    IF resp.kind = "timeout" THEN "Timeout"
    ELSE IF resp.kind = "connection" THEN "ConnectionError"
    ELSE ""

\* generate_text after the post, lines 128-131.
GenerateTextResult(resp) ==
    IF PostRaises(resp) # "" THEN Raise(PostRaises(resp))
    ELSE IF RaisesForStatus(resp.status) THEN Raise("HTTPError")
    ELSE IF resp.body = <<>> \/ resp.body = <<"html">> THEN Raise("JSONDecodeError")
    ELSE IF Head(resp.body) # "completion" THEN Raise("KeyError")
    ELSE Return(Strip(resp.body[2]))

\* elevenlabs_tts after the post, lines 149-151.
ElevenlabsTtsResult(resp) ==
    IF PostRaises(resp) # "" THEN Raise(PostRaises(resp))
    ELSE IF RaisesForStatus(resp.status) THEN Raise("HTTPError")
    ELSE Return(resp.body)

\* The base class of each exception class these calls raise.
BaseOf(c) ==
    CASE c \in {"HTTPError", "Timeout", "ConnectionError", "JSONDecodeError"}
            -> "RequestException"
      [] c = "RequestException" -> "OSError"
      [] c = "OSError" -> "Exception"
      [] c = "KeyError" -> "LookupError"
      [] c = "LookupError" -> "Exception"
      [] c = "Exception" -> "BaseException"
      [] OTHER -> "object"

RECURSIVE IsSubclass(_, _)
IsSubclass(c, base) ==
    c = base \/ (c # "object" /\ IsSubclass(BaseOf(c), base))

\* except Exception as e, line 215
Catches(exc) == IsSubclass(exc, "Exception")

-----------------------------------------------------------------------------
(* st.session_state *)

\* Mutant of SessionDefaults: the defaults are assigned on every run.
SessionAssignDefaults(ss) ==
    [k \in DOMAIN ss \cup {"text", "audio"} |-> IF k = "text" THEN <<>> ELSE None]

\* lines 188-191
SessionDefaults(ss) ==
    [k \in DOMAIN ss \cup {"text", "audio"} |->
        IF k \in DOMAIN ss THEN ss[k]
        ELSE IF k = "text" THEN <<>> ELSE None]

\* Mutant of DeleteAll: only the text is deleted.
DeleteText(ss) == [k \in DOMAIN ss \ {"text"} |-> ss[k]]

\* for k in list(st.session_state.keys()): del st.session_state[k], lines 173-174
DeleteAll(ss) == [k \in {} |-> None]

\* lines 210 and 213
Store(ss, key, value) == [k \in DOMAIN ss \cup {key} |-> IF k = key THEN value ELSE ss[k]]

\* What the page shows of the results, lines 219-233.
Rendered(ss) ==
    [text |-> IF Truthy(ss["text"]) THEN ss["text"] ELSE <<>>,
     audio |-> IF Truthy(ss["audio"]) THEN ss["audio"] ELSE None]

\* Mutant of CredentialError: the voice service is refused only when both
\* its key and its voice are missing.
CredentialErrorBoth(cfg) ==
    IF cfg.OPENAI_API_KEY = "" THEN "Missing OpenAI API Key"
    ELSE IF cfg.ELEVEN_API_KEY = "" /\ cfg.ELEVEN_VOICE_ID = ""
    THEN "Missing ElevenLabs API Key or Voice ID"
    ELSE ""

\* lines 194-197: the message of st.error, or "" with every credential set
CredentialError(cfg) ==
    IF cfg.OPENAI_API_KEY = "" THEN "Missing OpenAI API Key"
    ELSE IF cfg.ELEVEN_API_KEY = "" \/ cfg.ELEVEN_VOICE_ID = ""
    THEN "Missing ElevenLabs API Key or Voice ID"
    ELSE ""

-----------------------------------------------------------------------------
(* The script as a state machine: one run per user action, split where    *)
(* the run blocks in requests.post                                          *)

Resting == {"Idle", "Complete", "Failed"}

Secrets == {"", "secret"}

\* os.getenv(...) or st.secrets.get(..., ""), lines 16-18; the script is run
\* anew for every user action, and each run reads them again.
Configs ==
    [OPENAI_API_KEY : Secrets, ELEVEN_API_KEY : Secrets, ELEVEN_VOICE_ID : Secrets]

\* What a user can submit, lines 181-185.
UserInputs ==
    [name : {"", "Alex"}, occupation : {"teacher"}, detail : {""},
     birthday : {"not provided"}, mode : RadioOptions]

Step(name) == [step |-> name, from |-> pc]

Pending(req) == [req |-> req, state |-> "pending", status |-> 0]

\* The last call of the run has ended.
Settle(cs, state, resp) ==
    [cs EXCEPT ![Len(cs)] = [@ EXCEPT !.state = state, !.status = resp.status]]

\* The request the run is blocked in.
PendingReq == calls[Len(calls)].req

Init ==
    /\ config \in Configs
    /\ form = [name |-> "", occupation |-> "", detail |-> "",
               birthday |-> "not provided", mode |-> GROWN_UP]
    /\ session_state = SessionDefaults(<<>>)
    /\ pc = "Idle"
    /\ calls = <<>>
    /\ message = ""
    /\ last = [step |-> "Init", from |-> "Idle"]

\* The form is submitted: a new run starts, lines 16-18 and 181-193.
Submit(input, cfg) ==
    /\ pc \in Resting
    /\ config' = cfg
    /\ form' = input
    /\ session_state' = SessionDefaults(session_state)
    /\ pc' = "Validating"
    /\ calls' = <<>>
    /\ message' = ""
    /\ last' = Step("Submit")

\* lines 194-197: a credential is missing; the run ends.
ValidateReject ==
    /\ pc = "Validating"
    /\ CredentialError(config) # ""
    /\ message' = CredentialError(config)
    /\ pc' = "Idle"
    /\ last' = Step("ValidateReject")
    /\ UNCHANGED <<config, form, session_state, calls>>

\* lines 198-209 and 98-128: up to the post of generate_text.
ValidatePass ==
    /\ pc = "Validating"
    /\ CredentialError(config) = ""
    /\ calls' = Append(calls,
            Pending(TextRequest(form.name, form.occupation, form.detail,
                                form.birthday, OPENAI_MODEL, ModeKey(form.mode),
                                config.OPENAI_API_KEY)))
    /\ message' = "Reconciling contradictions"
    /\ pc' = "Generating"
    /\ last' = Step("ValidatePass")
    /\ UNCHANGED <<config, form, session_state>>

\* The except clause, lines 215-217; a class it does not catch ends the run.
Except(exc, resp) ==
    /\ calls' = Settle(calls, "raised", resp)
    /\ pc' = IF Catches(exc) THEN "Failed" ELSE "Crashed"
    /\ message' = IF Catches(exc) THEN "Generation failed" ELSE exc
    /\ UNCHANGED <<config, form, session_state>>

\* lines 128-131 and 209-212: the text arrives, is stored, and the post of
\* elevenlabs_tts goes out.
TextReturns(resp) ==
    /\ pc = "Generating"
    /\ ~GenerateTextResult(resp).raised
    /\ LET text == GenerateTextResult(resp).value IN
        /\ session_state' = Store(session_state, "text", text)
        /\ calls' = Append(Settle(calls, "returned", resp),
                Pending(VoiceRequest(text, config.ELEVEN_VOICE_ID,
                                     config.ELEVEN_API_KEY)))
    /\ message' = "Generating voice"
    /\ pc' = "Synthesizing"
    /\ last' = Step("TextReturns")
    /\ UNCHANGED <<config, form>>

\* Mutant of TextRaises: the failure is swallowed and the stored text is
\* sent to the voice service.
TextRaisesThenSpeaks(resp) ==
    /\ pc = "Generating"
    /\ GenerateTextResult(resp).raised
    /\ calls' = Append(Settle(calls, "raised", resp),
            Pending(VoiceRequest(session_state["text"], config.ELEVEN_VOICE_ID,
                                 config.ELEVEN_API_KEY)))
    /\ message' = "Generating voice"
    /\ pc' = "Synthesizing"
    /\ last' = Step("TextRaises")
    /\ UNCHANGED <<config, form, session_state>>

\* lines 128-131 and 215-217: generate_text raises.
TextRaises(resp) ==
    /\ pc = "Generating"
    /\ GenerateTextResult(resp).raised
    /\ Except(GenerateTextResult(resp).exc, resp)
    /\ last' = Step("TextRaises")

\* lines 149-151 and 212-214: the audio arrives and is stored.
VoiceReturns(resp) ==
    /\ pc = "Synthesizing"
    /\ resp \in VoiceResponses(PendingReq.payload.text)
    /\ ~ElevenlabsTtsResult(resp).raised
    /\ session_state' = Store(session_state, "audio", ElevenlabsTtsResult(resp).value)
    /\ calls' = Settle(calls, "returned", resp)
    /\ message' = "Nocturne complete"
    /\ pc' = "Complete"
    /\ last' = Step("VoiceReturns")
    /\ UNCHANGED <<config, form>>

\* lines 149-151 and 215-217: elevenlabs_tts raises.
VoiceRaises(resp) ==
    /\ pc = "Synthesizing"
    /\ resp \in VoiceResponses(PendingReq.payload.text)
    /\ ElevenlabsTtsResult(resp).raised
    /\ Except(ElevenlabsTtsResult(resp).exc, resp)
    /\ last' = Step("VoiceRaises")

\* The Reset button and the run st.rerun() starts, lines 172-175 and 188-191.
Reset(cfg) ==
    /\ pc \in Resting
    /\ config' = cfg
    /\ session_state' = SessionDefaults(DeleteAll(session_state))
    /\ pc' = "Idle"
    /\ calls' = <<>>
    /\ message' = ""
    /\ last' = Step("Reset")
    /\ UNCHANGED form

Next ==
    \/ \E input \in UserInputs, cfg \in Configs : Submit(input, cfg)
    \/ ValidateReject
    \/ ValidatePass
    \/ \E resp \in TextResponses : TextReturns(resp)
    \/ \E resp \in TextResponses : TextRaises(resp)
    \/ \E resp \in AnyVoiceResponse : VoiceReturns(resp)
    \/ \E resp \in AnyVoiceResponse : VoiceRaises(resp)
    \/ \E cfg \in Configs : Reset(cfg)

Spec == Init /\ [][Next]_vars

-----------------------------------------------------------------------------
(* generate_text and the handler's mode_key as functions of their           *)
(* arguments: every argument is drawn, then the request is built            *)

AllSecrets == [OPENAI_API_KEY |-> "secret", ELEVEN_API_KEY |-> "secret",
               ELEVEN_VOICE_ID |-> "secret"]

GenInputs ==
    [name : {"", "Alex", "{name}"}, occupation : {"", "teacher"},
     detail : {"", "checks locks twice"},
     birthday : {"", "not provided", "March"}, mode : ModeStrings]

GenInit ==
    /\ config = AllSecrets
    /\ form \in GenInputs
    /\ session_state = SessionDefaults(<<>>)
    /\ pc = "Args"
    /\ calls = <<>>
    /\ message = ""
    /\ last = [step |-> "Init", from |-> "Args"]

\* generate_text(name, occupation, detail, birthday, model, mode), lines 97-128
GenerateText ==
    /\ pc = "Args"
    /\ calls' = <<Pending(TextRequest(form.name, form.occupation, form.detail,
                                      form.birthday, OPENAI_MODEL, form.mode,
                                      config.OPENAI_API_KEY))>>
    /\ pc' = "Generating"
    /\ last' = Step("GenerateText")
    /\ UNCHANGED <<config, form, session_state, message>>

\* lines 207-209: the label is normalized, then generate_text is called
NormalizeAndGenerate ==
    /\ pc = "Args"
    /\ calls' = <<Pending(TextRequest(form.name, form.occupation, form.detail,
                                      form.birthday, OPENAI_MODEL, ModeKey(form.mode),
                                      config.OPENAI_API_KEY))>>
    /\ pc' = "Generating"
    /\ last' = Step("NormalizeAndGenerate")
    /\ UNCHANGED <<config, form, session_state, message>>

GenNext == GenerateText \/ NormalizeAndGenerate

GenSpec == GenInit /\ [][GenNext]_vars

\* The run cannot block for ever: each post has a timeout (lines 128, 149).
FairSpec ==
    /\ Spec
    /\ WF_vars(ValidateReject \/ ValidatePass)
    /\ WF_vars(\E resp \in TextResponses : TextReturns(resp) \/ TextRaises(resp))
    /\ WF_vars(\E resp \in AnyVoiceResponse : VoiceReturns(resp) \/ VoiceRaises(resp))

-----------------------------------------------------------------------------
(* Properties *)

text == session_state["text"]
audio == session_state["audio"]

\* C1: once a run has ended, an audio that is held (and shown) is the speech
\* of the text held with it.
C1_AudioIsOfText ==
    (pc \in Resting /\ Rendered(session_state).audio # None)
        => audio = Speech(text)

\* C2: after a submission whose text call returned and whose voice call
\* failed, the new text is stored and no audio is.
C2_PartialSuccess ==
    last.step = "VoiceRaises" =>
        /\ text = calls[2].req.payload.text
        /\ audio = None

\* C3: a voice request follows a text request of the same run that has
\* returned, carries its text, and at most one request is pending; a run
\* whose text call raised holds no voice request.
C3_Sequential ==
    /\ Cardinality({i \in DOMAIN calls : calls[i].state = "pending"}) <= 1
    /\ \A i \in DOMAIN calls :
        calls[i].req.service = "voice" =>
            /\ i > 1
            /\ calls[i - 1].req.service = "text"
            /\ calls[i - 1].state = "returned"
    /\ (\E i \in DOMAIN calls :
            calls[i].req.service = "text" /\ calls[i].state = "raised")
        => \A j \in DOMAIN calls : calls[j].req.service # "voice"

C3_TextFailed == last.step = "TextRaises" /\ pc = "Failed"

MissingCredential ==
    \/ config.OPENAI_API_KEY = ""
    \/ config.ELEVEN_API_KEY = ""
    \/ config.ELEVEN_VOICE_ID = ""

\* C4: with a credential missing, validation ends in Idle with a credential
\* error, and no request is ever issued.
C4_CredentialGate ==
    /\ [](MissingCredential => calls = <<>> /\ pc \in {"Idle", "Validating"})
    /\ [][(pc = "Validating" /\ MissingCredential) =>
            /\ pc' = "Idle"
            /\ message' \in {"Missing OpenAI API Key",
                             "Missing ElevenLabs API Key or Voice ID"}]_vars

C4_VoiceIdMissing ==
    /\ last.step = "ValidateReject"
    /\ config.OPENAI_API_KEY # "" /\ config.ELEVEN_API_KEY # ""
    /\ config.ELEVEN_VOICE_ID = ""

\* C5: reset is available in every resting state, and leaves the empty
\* session state and the flow in Idle.
C5_ResetClears ==
    /\ pc \in Resting => ENABLED (\E cfg \in Configs : Reset(cfg))
    /\ last.step = "Reset" =>
        /\ session_state = [text |-> <<>>, audio |-> None]
        /\ pc = "Idle"

C5_ResetFromComplete == last.step = "Reset" /\ last.from = "Complete"

\* C6: a mode that is none of the three known ones is refused: no request
\* is built for it.
C6_UnknownModeRejected ==
    /\ (last.step = "GenerateText" /\ form.mode \notin {GROWN_UP, KID_FRIENDLY, TEEN})
        => calls = <<>>
    /\ (last.step = "NormalizeAndGenerate" /\ form.mode \notin RadioOptions)
        => calls = <<>>

Shown(v) == IF v = "" THEN "not provided" ELSE v

\* C7: the user message ends with the four labelled lines, in order, each
\* with the field's value, or "not provided" for an empty field.
C7_UserMessage ==
    pc = "Generating" =>
        \E intro \in {"", "Return ONE short reading in the specified style.\n\n"} :
            calls[1].req.payload.messages[2] =
                [role |-> "user",
                 content |-> intro
                    \o "Name: " \o Shown(form.name) \o "\n"
                    \o "Occupation: " \o Shown(form.occupation) \o "\n"
                    \o "Detail: " \o Shown(form.detail) \o "\n"
                    \o "Birthday: " \o Shown(form.birthday) \o "\n"]

C7_SomeEmptySomeNot ==
    /\ pc = "Generating"
    /\ form.name = "" /\ form.birthday = ""
    /\ form.occupation = "teacher" /\ form.detail = "checks locks twice"

\* C8: the three templates are non-empty and pairwise different, and the
\* request of a submission carries the template, temperature and output cap
\* of the mode its label names.
C8_ModeTemplate ==
    /\ Cardinality({NOCTURNE_PROMPT, KID_PROMPT, TEEN_PROMPT}) = 3
    /\ "" \notin {NOCTURNE_PROMPT, KID_PROMPT, TEEN_PROMPT}
    /\ pc = "Generating" =>
        LET p == calls[1].req.payload
            got == <<p.messages[1], p.temperature, p.max_tokens>>
            sys(t) == [role |-> "system", content |-> t]
        IN  /\ Len(p.messages) = 2
            /\ form.mode = GROWN_UP => got = <<sys(NOCTURNE_PROMPT), 80, 450>>
            /\ form.mode = KID_FRIENDLY => got = <<sys(KID_PROMPT), 90, 380>>
            /\ form.mode = TEEN_LABEL => got = <<sys(TEEN_PROMPT), 85, 420>>

C8_TeenLabel == pc = "Generating" /\ form.mode = TEEN_LABEL

\* C9: a call that did not end in a 2xx answer ends the submission in
\* Failed with the error shown; no failure escapes the handler; from
\* Complete and from Failed a new submission can be made.
C9_FailuresEndFailed ==
    /\ pc # "Crashed"
    /\ \A i \in DOMAIN calls :
        (calls[i].state # "pending" /\ calls[i].status \notin 200..299)
            => pc = "Failed" /\ message = "Generation failed"
    /\ pc \in {"Complete", "Failed"} => ENABLED (\E input \in UserInputs, cfg \in Configs : Submit(input, cfg))

\* The part of C9 that holds: a validated submission ends.
SubmissionEnds ==
    (pc \in {"Generating", "Synthesizing"}) ~> (pc \in {"Complete", "Failed"})

\* C10: the steps of a submission up to and including a rejection or a
\* failure of the text call leave the session state as it was.
C10_FailureKeepsResults ==
    [][(\/ pc' = "Validating"
        \/ pc = "Validating"
        \/ pc = "Generating" /\ pc' # "Synthesizing")
       => session_state' = session_state]_vars

C10_EarlierResultsKept ==
    /\ last.step = "ValidateReject"
    /\ Truthy(text) /\ Truthy(audio)

====
